---------------------------- MODULE Spec2Model ----------------------------
(***************************************************************************)
(* Model of md_to_bgg.py: the inline recognizers (regular-expression       *)
(* patterns with priorities), the BGG_wrap helper and the BGGRenderer      *)
(* render rules with their prefix state.                                   *)
(*                                                                         *)
(* Text is a sequence of one-character strings.  A regular expression is a *)
(* sequence of atoms matched by backtracking in the order Python's re      *)
(* module tries the alternatives (greedy: longest first, lazy: shortest    *)
(* first, optional group: with the group first).                           *)
(***************************************************************************)
EXTENDS Integers, Sequences, FiniteSets, TLC

(***************************************************************************)
(* Characters and character classes of the patterns.                       *)
(***************************************************************************)
Digits == {"0", "1", "2", "3", "4", "5", "6", "7", "8", "9"}

Letters ==
    {"a", "b", "c", "d", "e", "f", "g", "h", "i", "j", "k", "l", "m",
     "n", "o", "p", "q", "r", "s", "t", "u", "v", "w", "x", "y", "z"}

\* \w of the re module (on the characters of the model)
WordChars == Letters \cup Digits \cup {"_"}

\* Membership of a character in a class of a pattern:
\*   dot = "."   notrp = "[^)]"   digit = "\d"   word = "\w"
\*   space = " " ch_s = "s"
InClass(cls, c) ==
    CASE cls = "dot"   -> c /= "\n"
      [] cls = "notrp" -> c /= ")"
      [] cls = "digit" -> c \in Digits
      [] cls = "word"  -> c \in WordChars
      [] cls = "space" -> c = " "
      [] cls = "ch_s"  -> c = "s"

(***************************************************************************)
(* Atoms of a pattern.                                                     *)
(*   Lit(str)                 the literal text str                         *)
(*   Rep(cls, min, max, g)    min..max characters of class cls (max = 0:   *)
(*                            no upper limit), greedy iff g                *)
(*   Opt(skip)                a greedy optional group "(?: ... )?" whose   *)
(*                            atoms follow; skip is the index of the first *)
(*                            atom after the group                         *)
(***************************************************************************)
Lit(str) ==
    [k |-> "lit", s |-> str, cls |-> "", min |-> 0, max |-> 0,
     greedy |-> TRUE, skip |-> 0]

Rep(cls, min, max, g) ==
    [k |-> "rep", s |-> <<>>, cls |-> cls, min |-> min, max |-> max,
     greedy |-> g, skip |-> 0]

Opt(skip) ==
    [k |-> "opt", s |-> <<>>, cls |-> "", min |-> 0, max |-> 0,
     greedy |-> TRUE, skip |-> skip]

Fail == <<>>

Zeros(n) == [i \in 1..n |-> 0]

\* Number of consecutive characters of class cls in s from position si on,
\* at most max of them when max > 0.
Run(cls, s, si, max) ==
    LET bad == {j \in si..Len(s) : ~InClass(cls, s[j])}
        stop == IF bad = {} THEN Len(s) + 1
                ELSE CHOOSE j \in bad : \A j2 \in bad : j <= j2
        n == stop - si
    IN  IF max > 0 /\ n > max THEN max ELSE n

RECURSIVE Match(_, _, _, _)
RECURSIVE Try(_, _, _, _, _, _)

\* The first successful way, in backtracking order, to match atoms pi.. of
\* pat against s from position si on: the sequence of the positions where
\* each atom starts (0 for the atoms of a skipped optional group) followed
\* by the position after the match; Fail when there is none.
Match(pat, pi, s, si) ==
    IF pi > Len(pat) THEN <<si>>
    ELSE LET a == pat[pi] IN
         CASE a.k = "lit" ->
                IF si + Len(a.s) - 1 <= Len(s)
                   /\ SubSeq(s, si, si + Len(a.s) - 1) = a.s
                THEN LET r == Match(pat, pi + 1, s, si + Len(a.s))
                     IN  IF r = Fail THEN Fail ELSE <<si>> \o r
                ELSE Fail
           [] a.k = "rep" ->
                LET run == Run(a.cls, s, si, a.max)
                IN  IF run < a.min THEN Fail
                    ELSE Try(pat, pi, s, si,
                             IF a.greedy THEN run ELSE a.min, run)
           [] a.k = "opt" ->
                LET r == Match(pat, pi + 1, s, si)
                IN  IF r /= Fail THEN <<si>> \o r
                    ELSE LET r2 == Match(pat, a.skip, s, si)
                         IN  IF r2 = Fail THEN Fail
                             ELSE <<si>> \o Zeros(a.skip - pi - 1) \o r2

\* Atom pi (a repetition) takes n characters; on failure of the rest the
\* next candidate is n - 1 (greedy) or n + 1 (lazy).
Try(pat, pi, s, si, n, run) ==
    LET a == pat[pi]
        r == Match(pat, pi + 1, s, si + n)
    IN  IF r /= Fail THEN <<si>> \o r
        ELSE IF a.greedy
             THEN IF n - 1 >= a.min THEN Try(pat, pi, s, si, n - 1, run)
                  ELSE Fail
             ELSE IF n + 1 <= run THEN Try(pat, pi, s, si, n + 1, run)
                  ELSE Fail

\* A captured group: absent (None in Python) or the matched text.
None == [present |-> FALSE, val |-> <<>>]

Some(str) == [present |-> TRUE, val |-> str]

\* The text captured by the group made of atoms a..b-1, given the path of
\* a successful match.
Group(path, s, a, b) ==
    IF path[a] = 0 THEN None ELSE Some(SubSeq(s, path[a], path[b] - 1))

(***************************************************************************)
(* The patterns of the seven inline elements.                              *)
(***************************************************************************)
HTTP == <<"h", "t", "t", "p">>

COLON_SLASHES == <<":", "/", "/">>

BOARDGAMEGEEK == <<"b", "o", "a", "r", "d", "g", "a", "m", "e", "g", "e", "e", "k">>

COM == <<"c", "o", "m">>

\* OPT_LINK_TEXT = (?:\[(?P<link_text>.*?)\])?     (atoms 1..4)
OPT_LINK_TEXT ==
    << Opt(5), Lit(<<"[">>), Rep("dot", 0, 0, FALSE), Lit(<<"]">>) >>

\* The long form pattern with a lazy [^)]*? after the host
InternalLinkLongForm_pattern_lazy ==
    OPT_LINK_TEXT \o
    << Lit(<<"(">> \o HTTP), Rep("ch_s", 0, 1, TRUE), Lit(COLON_SLASHES),
       Rep("dot", 0, 0, FALSE), Lit(BOARDGAMEGEEK \o <<".">> \o COM),
       Rep("notrp", 0, 0, FALSE), Lit(<<"/">>), Rep("dot", 0, 0, FALSE),
       Lit(<<"/">>), Rep("digit", 1, 0, TRUE), Rep("dot", 0, 0, FALSE),
       Lit(<<")">>) >>

\* \(https?://.*?boardgamegeek\.com[^)]*/(?P<link_type>.*?)/(?P<object_ID>\d+).*?\)
InternalLinkLongForm_pattern ==
    OPT_LINK_TEXT \o
    << Lit(<<"(">> \o HTTP),                 \*  5
       Rep("ch_s", 0, 1, TRUE),              \*  6
       Lit(COLON_SLASHES),                   \*  7
       Rep("dot", 0, 0, FALSE),              \*  8
       Lit(BOARDGAMEGEEK \o <<".">> \o COM), \*  9
       Rep("notrp", 0, 0, TRUE),             \* 10
       Lit(<<"/">>),                         \* 11
       Rep("dot", 0, 0, FALSE),              \* 12  link_type
       Lit(<<"/">>),                         \* 13
       Rep("digit", 1, 0, TRUE),             \* 14  object_ID
       Rep("dot", 0, 0, FALSE),              \* 15
       Lit(<<")">>) >>                       \* 16

\* OPT_LINK_TEXT + \((?P<link_type>.*?)=(?P<object_ID>\d+)\)
InternalLinkShortForm_pattern ==
    OPT_LINK_TEXT \o
    << Lit(<<"(">>),                         \*  5
       Rep("dot", 0, 0, FALSE),              \*  6  link_type
       Lit(<<"=">>),                         \*  7
       Rep("digit", 1, 0, TRUE),             \*  8  object_ID
       Lit(<<")">>) >>                       \*  9

\* !\(https?://.*?boardgamegeek.com.*?/image/(?P<image_ID>\d+).*?(?: +(?P<size>\w+))?\)
InternalImageLongForm_pattern ==
    << Lit(<<"!", "(">> \o HTTP),            \*  1
       Rep("ch_s", 0, 1, TRUE),              \*  2
       Lit(COLON_SLASHES),                   \*  3
       Rep("dot", 0, 0, FALSE),              \*  4
       Lit(BOARDGAMEGEEK),                   \*  5
       Rep("dot", 1, 1, TRUE),               \*  6  the unescaped "."
       Lit(COM),                             \*  7
       Rep("dot", 0, 0, FALSE),              \*  8
       Lit(<<"/", "i", "m", "a", "g", "e", "/">>),  \*  9
       Rep("digit", 1, 0, TRUE),             \* 10  image_ID
       Rep("dot", 0, 0, FALSE),              \* 11
       Opt(15),                              \* 12
       Rep("space", 1, 0, TRUE),             \* 13
       Rep("word", 1, 0, TRUE),              \* 14  size
       Lit(<<")">>) >>                       \* 15

\* !\(imageid=(?P<image_ID>.+?)(?: +(?P<size>\w+))?\)
InternalImageShortForm_pattern ==
    << Lit(<<"!", "(", "i", "m", "a", "g", "e", "i", "d", "=">>),  \* 1
       Rep("dot", 1, 0, FALSE),              \*  2  image_ID
       Opt(6),                               \*  3
       Rep("space", 1, 0, TRUE),             \*  4
       Rep("word", 1, 0, TRUE),              \*  5  size
       Lit(<<")">>) >>                       \*  6

\* !\((?P<image_URL>.*?)\)
ExternalImage_pattern ==
    << Lit(<<"!", "(">>),                    \*  1
       Rep("dot", 0, 0, FALSE),              \*  2  image_URL
       Lit(<<")">>) >>                       \*  3

\* \(https?://.*?youtu.*?/watch\?v=(?P<video_ID>.+?)\)
YouTubeLongForm_pattern ==
    << Lit(<<"(">> \o HTTP),                 \*  1
       Rep("ch_s", 0, 1, TRUE),              \*  2
       Lit(COLON_SLASHES),                   \*  3
       Rep("dot", 0, 0, FALSE),              \*  4
       Lit(<<"y", "o", "u", "t", "u">>),     \*  5
       Rep("dot", 0, 0, FALSE),              \*  6
       Lit(<<"/", "w", "a", "t", "c", "h", "?", "v", "=">>),  \*  7
       Rep("dot", 1, 0, FALSE),              \*  8  video_ID
       Lit(<<")">>) >>                       \*  9

\* \(youtube=(?P<video_ID>.+?)\)
YouTubeShortForm_pattern ==
    << Lit(<<"(", "y", "o", "u", "t", "u", "b", "e", "=">>),  \*  1
       Rep("dot", 1, 0, FALSE),              \*  2  video_ID
       Lit(<<")">>) >>                       \*  3

\* The elements in the order BGGExtension.elements registers them.
Elements ==
    << "InternalLinkLongForm", "InternalLinkShortForm",
       "InternalImageLongForm", "InternalImageShortForm", "ExternalImage",
       "YouTubeLongForm", "YouTubeShortForm" >>

ElementNames == {Elements[i] : i \in 1..Len(Elements)}

Pattern(e) ==
    CASE e = "InternalLinkLongForm"   -> InternalLinkLongForm_pattern
      [] e = "InternalLinkShortForm"  -> InternalLinkShortForm_pattern
      [] e = "InternalImageLongForm"  -> InternalImageLongForm_pattern
      [] e = "InternalImageShortForm" -> InternalImageShortForm_pattern
      [] e = "ExternalImage"          -> ExternalImage_pattern
      [] e = "YouTubeLongForm"        -> YouTubeLongForm_pattern
      [] e = "YouTubeShortForm"       -> YouTubeShortForm_pattern

\* match.groupdict() (match.group(...) for the elements that keep one
\* group): the named groups of element e for a successful match path p.
\* The fields an element does not have are None.
GroupDict(e, s, p) ==
    LET no == [link_text |-> None, link_type |-> None, object_ID |-> None,
               image_ID |-> None, size |-> None, image_URL |-> None,
               video_ID |-> None]
    IN  CASE e = "InternalLinkLongForm" ->
               [no EXCEPT !.link_text = Group(p, s, 3, 4),
                          !.link_type = Group(p, s, 12, 13),
                          !.object_ID = Group(p, s, 14, 15)]
          [] e = "InternalLinkShortForm" ->
               [no EXCEPT !.link_text = Group(p, s, 3, 4),
                          !.link_type = Group(p, s, 6, 7),
                          !.object_ID = Group(p, s, 8, 9)]
          [] e = "InternalImageLongForm" ->
               [no EXCEPT !.image_ID = Group(p, s, 10, 11),
                          !.size = Group(p, s, 14, 15)]
          [] e = "InternalImageShortForm" ->
               [no EXCEPT !.image_ID = Group(p, s, 2, 3),
                          !.size = Group(p, s, 5, 6)]
          [] e = "ExternalImage" ->
               [no EXCEPT !.image_URL = Group(p, s, 2, 3)]
          [] e = "YouTubeLongForm" ->
               [no EXCEPT !.video_ID = Group(p, s, 8, 9)]
          [] e = "YouTubeShortForm" ->
               [no EXCEPT !.video_ID = Group(p, s, 2, 3)]

NoMatch == [matched |-> FALSE, start |-> 0, end |-> 0, path |-> <<>>]

\* The match of element e's pattern anchored at position pos of s: whether
\* it matches, its span [start, end) and the path of the atoms.
MatchAt(e, s, pos) ==
    LET p == Match(Pattern(e), 1, s, pos)
    IN  IF p = Fail THEN NoMatch
        ELSE [matched |-> TRUE, start |-> pos, end |-> p[Len(p)], path |-> p]

(***************************************************************************)
(* Python strings: str(int) and str.format with one positional argument.   *)
(* A result is a value or the exception that was raised.                   *)
(***************************************************************************)
Ok(str) == [ok |-> TRUE, val |-> str, err |-> "none", msg |-> <<>>]

\* An exception of type e; msg is the key of a KeyError (the texts of the
\* other exceptions are left out)
Raise(e) == [ok |-> FALSE, val |-> <<>>, err |-> e, msg |-> <<>>]

RaiseKey(key) == [ok |-> FALSE, val |-> <<>>, err |-> "KeyError", msg |-> key]

DigitChar(d) ==
    CASE d = 0 -> "0" [] d = 1 -> "1" [] d = 2 -> "2" [] d = 3 -> "3"
      [] d = 4 -> "4" [] d = 5 -> "5" [] d = 6 -> "6" [] d = 7 -> "7"
      [] d = 8 -> "8" [] d = 9 -> "9"

RECURSIVE DecStr(_)
\* str(n) for an integer n >= 0
DecStr(n) ==
    IF n < 10 THEN <<DigitChar(n)>>
    ELSE Append(DecStr(n \div 10), DigitChar(n % 10))

RECURSIVE FindClose(_, _, _)
\* The position of the "}" that closes a replacement field, scanning t from
\* j with depth braces open; 0 when the string ends first.
FindClose(t, j, depth) ==
    IF j > Len(t) THEN 0
    ELSE IF t[j] = "{" THEN FindClose(t, j + 1, depth + 1)
    ELSE IF t[j] = "}"
         THEN IF depth = 1 THEN j ELSE FindClose(t, j + 1, depth - 1)
    ELSE FindClose(t, j + 1, depth)

\* c followed by the rest of a formatting, when the rest succeeds
Emit(str, rest) == IF rest.ok THEN Ok(str \o rest.val) ELSE rest

\* The position of the first brace of t at or after i (Len(t) + 1 when
\* there is none): the literal text before it is copied as it is.
NextBrace(t, i) ==
    LET bs == {k \in i..Len(t) : t[k] \in {"{", "}"}}
    IN  IF bs = {} THEN Len(t) + 1
        ELSE CHOOSE k \in bs : \A k2 \in bs : k <= k2

RECURSIVE Format(_, _, _, _)
\* t[i..].format(arg): "{{" and "}}" are braces, "{}" and "{0}" are arg
\* (automatic and manual numbering do not mix, mode says which is in use),
\* every other field or lone brace raises.  Field names hold none of
\* "!", ":", ".", "[".
Format(t, arg, i, mode) ==
    IF i > Len(t) THEN Ok(<<>>)
    ELSE IF t[i] = "{" THEN
        IF i + 1 <= Len(t) /\ t[i + 1] = "{"
        THEN Emit(<<"{">>, Format(t, arg, i + 2, mode))
        ELSE LET j == FindClose(t, i + 1, 1)
                 field == SubSeq(t, i + 1, j - 1)
             IN  IF j = 0 THEN Raise("ValueError")
                 ELSE IF \E m \in 1..Len(field) : field[m] = "{"
                      THEN Raise("ValueError")
                 ELSE IF field = <<>>
                      THEN IF mode = "manual" THEN Raise("ValueError")
                           ELSE IF mode = "auto" THEN Raise("IndexError")
                           ELSE Emit(arg, Format(t, arg, j + 1, "auto"))
                 ELSE IF \A m \in 1..Len(field) : field[m] \in Digits
                      THEN IF mode = "auto" THEN Raise("ValueError")
                           ELSE IF \E m \in 1..Len(field) : field[m] /= "0"
                                THEN Raise("IndexError")
                           ELSE Emit(arg, Format(t, arg, j + 1, "manual"))
                 ELSE RaiseKey(field)
    ELSE IF t[i] = "}" THEN
        IF i + 1 <= Len(t) /\ t[i + 1] = "}"
        THEN Emit(<<"}">>, Format(t, arg, i + 2, mode))
        ELSE Raise("ValueError")
    ELSE LET k == NextBrace(t, i)
         IN  Emit(SubSeq(t, i, k - 1), Format(t, arg, k, mode))

\* The f-string is built first, with "{}" left in it for format: the whole
\* of it, code and contents included, then goes through format.
\* BGG_wrap(code, contents, code_value=None)
BGG_wrap(code, contents, code_value) ==
    Format(<<"[">> \o code \o <<"{", "}", "]">> \o contents
           \o <<"[", "/">> \o code \o <<"]">>,
           IF code_value.present THEN <<"=">> \o code_value.val ELSE <<>>,
           1, "none")

(***************************************************************************)
(* Priorities of the inline elements.                                      *)
(***************************************************************************)
\* The priority of an element that sets none (the one of regular links)
DefaultPriority == 5

InternalLinkLongForm_priority == 6

InternalLinkShortForm_priority == 6

InternalImageLongForm_priority == 7

InternalImageShortForm_priority == 7

\* YouTubeShortForm without its "priority = 7" line
YouTubeShortForm_priority_unset == DefaultPriority

YouTubeShortForm_priority == 7

Priority(e) ==
    CASE e = "InternalLinkLongForm"   -> InternalLinkLongForm_priority
      [] e = "InternalLinkShortForm"  -> InternalLinkShortForm_priority
      [] e = "InternalImageLongForm"  -> InternalImageLongForm_priority
      [] e = "InternalImageShortForm" -> InternalImageShortForm_priority
      [] e = "ExternalImage"          -> DefaultPriority
      [] e = "YouTubeLongForm"        -> DefaultPriority
      [] e = "YouTubeShortForm"       -> YouTubeShortForm_priority

\* Position of element e in the registration list
Rank(e) == CHOOSE i \in 1..Len(Elements) : Elements[i] = e

\* The matches of all the elements at position pos of s
Candidates(s, pos) == [e \in ElementNames |-> MatchAt(e, s, pos)]

\* Dispatch of the parsing engine among the elements that match at the same
\* position: the strictly higher priority wins, and among equal priorities
\* the element registered first.  "none" when no element matches.
Winner(c) ==
    LET m == {e \in ElementNames : c[e].matched}
    IN  IF m = {} THEN "none"
        ELSE CHOOSE e \in m :
               \A f \in m : \/ Priority(e) > Priority(f)
                            \/ Priority(e) = Priority(f) /\ Rank(e) <= Rank(f)

(***************************************************************************)
(* The render rules of the custom inline elements.                         *)
(***************************************************************************)
\* self.render_children(element) of a link element whose link text is plain
\* text: the text, or nothing when the link has no text.
render_children_link(g) ==
    IF g.link_text.present THEN g.link_text.val ELSE <<>>

\* render_internal_link_long_form, also render_internal_link_short_form
render_internal_link_long_form(g) ==
    BGG_wrap(g.link_type.val, render_children_link(g), Some(g.object_ID.val))

\* render_internal_image_long_form, also render_internal_image_short_form
render_internal_image_long_form(g) ==
    Ok(<<"[", "i", "m", "a", "g", "e", "i", "d", "=">> \o g.image_ID.val
       \o (IF g.size.present THEN <<" ">> \o g.size.val ELSE <<>>)
       \o <<"]">>)

render_external_image(g) ==
    BGG_wrap(<<"i", "m", "g">>, g.image_URL.val, None)

\* render_you_tube_long_form, also render_you_tube_short_form
render_you_tube_long_form(g) ==
    Ok(<<"[", "y", "o", "u", "t", "u", "b", "e", "=">> \o g.video_ID.val
       \o <<"]">>)

RenderInline(e, g) ==
    CASE e \in {"InternalLinkLongForm", "InternalLinkShortForm"} ->
           render_internal_link_long_form(g)
      [] e \in {"InternalImageLongForm", "InternalImageShortForm"} ->
           render_internal_image_long_form(g)
      [] e = "ExternalImage" -> render_external_image(g)
      [] e \in {"YouTubeLongForm", "YouTubeShortForm"} ->
           render_you_tube_long_form(g)

(***************************************************************************)
(* State.                                                                  *)
(*   wrap    one call of BGG_wrap: its arguments and what it returned      *)
(*   input   the description of the inline text being parsed               *)
(*   text    the inline text                                               *)
(*   pos     the position the parsing engine has reached in text           *)
(*   cands   the match of every element's pattern at pos                   *)
(*   nodes   the elements recognized so far, each with its span, its       *)
(*           groups and what its render rule returns                       *)
(*   pc      "run" while the document is rendered, "done" once it is       *)
(*           printed, "aborted" after an exception                         *)
(*   stack   the elements being rendered, the document first: the position *)
(*           of the rendering in the document tree                         *)
(*   prefix, second_prefix     self._prefix and self._second_prefix        *)
(*   last    what the last step of the rendering did                       *)
(*   budget  the number of blocks the document has so far                  *)
(*   stdout  what has been printed                                         *)
(*   error   the exception that aborted the conversion                     *)
(***************************************************************************)
VARIABLES wrap, input, text, pos, cands, nodes,
          pc, stack, prefix, second_prefix, last, budget, stdout, error

inlineVars == <<input, text, pos, cands, nodes>>

renderVars == <<pc, stack, prefix, second_prefix, last, budget, stdout, error>>

vars == <<wrap, inlineVars, renderVars>>

(***************************************************************************)
(* Bounds of the inputs.                                                   *)
(***************************************************************************)
\* Longest contents handed to BGG_wrap
MaxContents == 3

\* Most /type/id pairs in the URL of a long form link
MaxPairs == 3

\* Longest ID of a short form YouTube link
MaxIdLen == 3

\* Most blocks (headings, paragraphs, quotes, lists) of a document
MaxBlocks == 3

\* Most lists and quotes nested in one another
MaxDepth == 2

\* Most items of a list
MaxItems == 2

\* Highest level of a heading
MaxLevel == 3

SeqsUpTo(S, n) == UNION {[1..m -> S] : m \in 0..n}

(***************************************************************************)
(* The render rules of the blocks.                                         *)
(***************************************************************************)
Spaces(n) == [i \in 1..n |-> " "]

SIZE == <<"s", "i", "z", "e">>

\* A lookup {1: 24, 2: 18}.get(level, 18), which guesses a size
HeadingSize_guessing(level) ==
    IF level = 1 THEN [present |-> TRUE, val |-> 24]
    ELSE [present |-> TRUE, val |-> 18]

\* {1: 24, 2: 18}[element.level]: the size, or no entry in the table
HeadingSize(level) ==
    CASE level = 1 -> [present |-> TRUE, val |-> 24]
      [] level = 2 -> [present |-> TRUE, val |-> 18]
      [] OTHER     -> [present |-> FALSE, val |-> 0]

\* render_heading without self._prefix in front
render_heading_bare(pfx, level, children) ==
    LET size == HeadingSize(level)
        w == BGG_wrap(SIZE, children, Some(DecStr(size.val)))
    IN  IF ~size.present THEN RaiseKey(DecStr(level))
        ELSE IF w.ok THEN Ok(w.val \o <<"\n">>)
        ELSE w

\* What render_heading returns when self._prefix is pfx and the children
\* render as children: the lookup of the size raises KeyError(level) for a
\* level that is not in the table.
render_heading(pfx, level, children) ==
    LET size == HeadingSize(level)
        w == BGG_wrap(SIZE, children, Some(DecStr(size.val)))
    IN  IF ~size.present THEN RaiseKey(DecStr(level))
        ELSE IF w.ok THEN Ok(pfx \o w.val \o <<"\n">>)
        ELSE w

\* render_quote
render_quote(children) == BGG_wrap(<<"q">>, children, None)

\* enumerate(element.children, element.start): the number of child i
ItemNumber(start, i) == start + i

\* The prefixes of an item of an ordered list, second one three spaces wide
OrderedItemPrefixes_fixed(num) ==
    [first |-> DecStr(num) \o <<".", " ">>, second |-> Spaces(3)]

\* f"{num}. " and " " * (len(str(num))+2)
OrderedItemPrefixes(num) ==
    [first |-> DecStr(num) \o <<".", " ">>,
     second |-> Spaces(Len(DecStr(num)) + 2)]

\* f"{element.bullet} " and "  "
UnorderedItemPrefixes(bullet) ==
    [first |-> <<bullet, " ">>, second |-> Spaces(2)]

\* self.container(first, second) entered with the pair (pfx, sec): the pair
\* is saved and each prefix extended.
container_enter(pfx, sec, p) ==
    [prefix |-> pfx \o p.first, second |-> sec \o p.second,
     old_prefix |-> pfx, old_second |-> sec]

\* The render rules BGGRenderer defines (render_<kind>)
BGGRenderer_rules ==
    {"list", "quote", "heading", "emphasis", "strong_emphasis", "link",
     "line_break", "internal_link_long_form", "internal_link_short_form",
     "internal_image_long_form", "internal_image_short_form",
     "external_image", "you_tube_long_form", "you_tube_short_form"}

\* The renderer whose rule renders elements of this kind: BGGRenderer is
\* mixed in MarkdownRenderer, whose rule applies where BGGRenderer has none.
RuleOwner(kind) ==
    IF kind \in BGGRenderer_rules THEN "BGGRenderer" ELSE "MarkdownRenderer"

\* The grave accent (U+0060), under a name
BACKTICK == "grave"

\* The code span rule of MarkdownRenderer: markdown again
MarkdownRenderer_render_code_span(t) ==
    IF (t /= <<>> /\ t[1] = BACKTICK) \/ t[Len(t)] = BACKTICK
    THEN <<BACKTICK, BACKTICK, " ">> \o t \o <<" ", BACKTICK, BACKTICK>>
    ELSE <<BACKTICK>> \o t \o <<BACKTICK>>

\* The inline child of a paragraph rendered: plain text as it is, a code
\* span by the rule of the renderer that owns code spans.
render_inline_child(child) ==
    IF child.kind = "code_span" /\ RuleOwner("code_span") = "MarkdownRenderer"
    THEN MarkdownRenderer_render_code_span(child.text)
    ELSE child.text

\* The paragraph rule of MarkdownRenderer
render_paragraph(pfx, child) == pfx \o render_inline_child(child) \o <<"\n">>

(***************************************************************************)
(* Documents: the blocks are chosen while the document is rendered.        *)
(***************************************************************************)
Levels == 1..MaxLevel

HeadingChildren == { <<"T">>, <<"{", "x", "}">> }

ParagraphChildren ==
    { [kind |-> "text", text |-> <<"p">>],
      [kind |-> "code_span", text |-> <<"x">>],
      [kind |-> "code_span", text |-> <<BACKTICK, "a">>] }

Starts == {1, 9, 99}

Bullets == {"-", "*"}

Frame(kind, ordered, start, bullet, n, pfx, sec) ==
    [kind |-> kind, ordered |-> ordered, start |-> start, bullet |-> bullet,
     n |-> n, i |-> 0, old_prefix |-> pfx, old_second |-> sec,
     result |-> <<>>, order |-> <<>>]

DocumentFrame == Frame("document", FALSE, 0, "", 0, <<>>, <<>>)

NoStep ==
    [what |-> "none", level |-> 0, child |-> [kind |-> "text", text |-> <<>>],
     prefix |-> <<>>, second |-> <<>>, result |-> Ok(<<>>),
     ordered |-> FALSE, start |-> 0, i |-> 0]

\* The renderer before it renders: __enter__ empties both prefixes.
RenderIdle ==
    /\ pc = "run"
    /\ stack = <<DocumentFrame>>
    /\ prefix = <<>>
    /\ second_prefix = <<>>
    /\ last = NoStep
    /\ budget = 0
    /\ stdout = <<>>
    /\ error = Ok(<<>>)

(***************************************************************************)
(* BGG_wrap on its own.                                                    *)
(***************************************************************************)
WrapCodes == { <<"b">>, <<"q">>, <<"s", "i", "z", "e">> }

WrapContents == SeqsUpTo({"a", "0", "{", "}"}, MaxContents)

WrapValues == { None, Some(<<"2", "4">>), Some(<<"7">>) }

NoWrap == [code |-> <<>>, contents |-> <<>>, code_value |-> None,
           called |-> FALSE, result |-> Ok(<<>>)]

NoInput == [form |-> "none", ltext |-> None, url |-> <<>>, pairs |-> <<>>,
            trailer |-> <<>>, id |-> <<>>, raw |-> <<>>]

InlineIdle ==
    /\ input = NoInput
    /\ text = <<>>
    /\ pos = 1
    /\ cands = Candidates(<<>>, 1)
    /\ nodes = <<>>

InitWrap ==
    /\ wrap \in [code : WrapCodes, contents : WrapContents,
                 code_value : WrapValues, called : {FALSE},
                 result : {Ok(<<>>)}]
    /\ InlineIdle
    /\ RenderIdle

\* The call BGG_wrap(code, contents, code_value)
Wrap ==
    /\ ~wrap.called
    /\ wrap' = [wrap EXCEPT !.called = TRUE,
                            !.result = BGG_wrap(wrap.code, wrap.contents,
                                                wrap.code_value)]
    /\ UNCHANGED <<inlineVars, renderVars>>

NextWrap == Wrap

SpecWrap == InitWrap /\ [][NextWrap]_vars

(***************************************************************************)
(* The inline texts that are parsed.                                       *)
(***************************************************************************)
THREAD == <<"t", "h", "r", "e", "a", "d">>

ARTICLE == <<"a", "r", "t", "i", "c", "l", "e">>

THING == <<"t", "h", "i", "n", "g">>

NICE_PLAY == <<"n", "i", "c", "e", " ", "p", "l", "a", "y">>

SMALL == <<"s", "m", "a", "l", "l">>

\* https://boardgamegeek.com
BGG_URL == HTTP \o <<"s">> \o COLON_SLASHES \o BOARDGAMEGEEK \o <<".">> \o COM

\* http://www.boardgamegeek.com
BGG_URL_WWW ==
    HTTP \o COLON_SLASHES \o <<"w", "w", "w", ".">> \o BOARDGAMEGEEK
    \o <<".">> \o COM

\* A /type/id pair of a URL
PathPairs ==
    [type : {THREAD, ARTICLE}, id : { <<"5", "5", "5">>, <<"7", "7", "7">> }]

RECURSIVE PathOf(_)
\* /type/id/type/id...
PathOf(pairs) ==
    IF Len(pairs) = 0 THEN <<>>
    ELSE <<"/">> \o pairs[1].type \o <<"/">> \o pairs[1].id
         \o PathOf(Tail(pairs))

\* Long form links [text](URL/type/id/.../type/id<trailer>), the text
\* optional, with one to MaxPairs pairs
LinkInputs ==
    [form : {"link"},
     ltext : {None, Some(NICE_PLAY)},
     url : {BGG_URL, BGG_URL_WWW},
     pairs : UNION {[1..n -> PathPairs] : n \in 1..MaxPairs},
     trailer : { <<>>, <<"#", "7", "7", "7">> },
     id : {<<>>},
     raw : {<<>>}]

\* Short form YouTube links (youtube=ID), the ID made of digits or not
YouTubeInputs ==
    [form : {"youtube"}, ltext : {None}, url : {<<>>}, pairs : {<<>>},
     trailer : {<<>>},
     id : (SeqsUpTo({"1", "2", "3"}, MaxIdLen) \ {<<>>})
          \cup { <<"x", "-", "J", "2">> },
     raw : {<<>>}]

\* !(https://boardgamegeek.com/image/123 small)
IMAGE_123_SMALL ==
    <<"!", "(">> \o BGG_URL
    \o <<"/", "i", "m", "a", "g", "e", "/", "1", "2", "3", " ">> \o SMALL \o <<")">>

\* Other texts, given as they are
RawTexts ==
    { IMAGE_123_SMALL,
      \* !(https://boardgamegeek.com/image/7/name small)
      <<"!", "(">> \o BGG_URL \o <<"/", "i", "m", "a", "g", "e", "/", "7", "/", "n", "a", "m", "e", " ">>
          \o SMALL \o <<")">>,
      \* !(https://boardgamegeek.com/image/ab)
      <<"!", "(">> \o BGG_URL \o <<"/", "i", "m", "a", "g", "e", "/", "a", "b", ")">>,
      \* !(http://x.y/z.png)
      <<"!", "(">> \o HTTP \o COLON_SLASHES \o <<"x", ".", "y", "/", "z", ".", "p", "n", "g", ")">>,
      \* !(imageid=12)   !(imageid=12 small)   !(imageid=abc)   !(imageid=)
      <<"!", "(", "i", "m", "a", "g", "e", "i", "d", "=", "1", "2", ")">>,
      <<"!", "(", "i", "m", "a", "g", "e", "i", "d", "=", "1", "2", " ">> \o SMALL \o <<")">>,
      <<"!", "(", "i", "m", "a", "g", "e", "i", "d", "=", "a", "b", "c", ")">>,
      <<"!", "(", "i", "m", "a", "g", "e", "i", "d", "=", ")">>,
      \* (thing=12)   (thing=)   (thing=ab)   [x](thing=42)   see (thing=12) ok
      <<"(">> \o THING \o <<"=", "1", "2", ")">>,
      <<"(">> \o THING \o <<"=", ")">>,
      <<"(">> \o THING \o <<"=", "a", "b", ")">>,
      <<"[", "x", "]", "(">> \o THING \o <<"=", "4", "2", ")">>,
      <<"s", "e", "e", " ", "(">> \o THING \o <<"=", "1", "2", ")", " ", "o", "k">>,
      \* (https://www.youtube.com/watch?v=x-J2)
      <<"(">> \o HTTP \o <<"s">> \o COLON_SLASHES
          \o <<"w", "w", "w", ".", "y", "o", "u", "t", "u", "b", "e", ".", "c", "o", "m",
               "/", "w", "a", "t", "c", "h", "?", "v", "=", "x", "-", "J", "2", ")">>,
      \* (https://boardgamegeek.com/thing/) and (https://boardgamegeek.com/thing/ab)
      <<"(">> \o BGG_URL \o <<"/">> \o THING \o <<"/", ")">>,
      <<"(">> \o BGG_URL \o <<"/">> \o THING \o <<"/", "a", "b", ")">>,
      \* (https://boardgamegeek.com/thing/12) ok
      <<"(">> \o BGG_URL \o <<"/">> \o THING \o <<"/", "1", "2", ")", " ", "o", "k">>,
      \* (https://boardgamegeek.com/thing/12) (thing=5)
      <<"(">> \o BGG_URL \o <<"/">> \o THING \o <<"/", "1", "2", ")", " ", "(">>
          \o THING \o <<"=", "5", ")">>,
      \* (https://boardgamegeek.com/thing/12) (a/b/3)
      <<"(">> \o BGG_URL \o <<"/">> \o THING
          \o <<"/", "1", "2", ")", " ", "(", "a", "/", "b", "/", "3", ")">>,
      \* (https://boardgamegeek.com/users) and (see/1)
      <<"(">> \o BGG_URL
          \o <<"/", "u", "s", "e", "r", "s", ")", " ", "a", "n", "d", " ", "(",
               "s", "e", "e", "/", "1", ")">> }

RawInputs ==
    [form : {"raw"}, ltext : {None}, url : {<<>>}, pairs : {<<>>},
     trailer : {<<>>}, id : {<<>>}, raw : RawTexts]

\* The text an input stands for
InputText(in) ==
    CASE in.form = "link" ->
           (IF in.ltext.present THEN <<"[">> \o in.ltext.val \o <<"]">>
            ELSE <<>>)
           \o <<"(">> \o in.url \o PathOf(in.pairs) \o in.trailer \o <<")">>
      [] in.form = "youtube" ->
           <<"(", "y", "o", "u", "t", "u", "b", "e", "=">> \o in.id \o <<")">>
      [] in.form = "raw" -> in.raw

InitInline ==
    /\ wrap = NoWrap
    /\ input \in LinkInputs \cup YouTubeInputs \cup RawInputs
    /\ text = InputText(input)
    /\ pos = 1
    /\ cands = Candidates(text, 1)
    /\ nodes = <<>>
    /\ RenderIdle

\* An element matches at pos: the element the dispatch selects is built
\* from its match (its __init__ keeps the groups), the engine goes on after
\* the match.  out is what the element's render rule returns for it.
Recognize ==
    /\ pos <= Len(text)
    /\ Winner(cands) /= "none"
    /\ LET e == Winner(cands)
           m == cands[e]
           g == GroupDict(e, text, m.path)
       IN  /\ nodes' = Append(nodes, [kind |-> e, start |-> m.start,
                                      end |-> m.end, path |-> m.path,
                                      groups |-> g,
                                      out |-> RenderInline(e, g)])
           /\ pos' = m.end
           /\ cands' = Candidates(text, m.end)
    /\ UNCHANGED <<wrap, input, text, renderVars>>

\* No element matches at pos: one character of plain text is consumed.
RawText ==
    /\ pos <= Len(text)
    /\ Winner(cands) = "none"
    /\ pos' = pos + 1
    /\ cands' = Candidates(text, pos + 1)
    /\ UNCHANGED <<wrap, input, text, nodes, renderVars>>

NextInline == Recognize \/ RawText

SpecInline == InitInline /\ [][NextInline]_vars

(***************************************************************************)
(* The rendering of a document.  The renderer walks the tree depth first;  *)
(* stack holds the elements it is in, each with the text rendered for it   *)
(* so far.  render_list is entered (EnterList), renders each child inside  *)
(* the container of its prefixes (EnterItem .. ExitItem) and returns       *)
(* (ExitList).                                                             *)
(***************************************************************************)
Top == stack[Len(stack)]

Depth == Cardinality({k \in 1..Len(stack) : stack[k].kind \in {"list", "quote"}})

\* The element being rendered holds blocks
InBlocks == Top.kind \in {"document", "item", "quote"}

AddResult(stk, str) == [stk EXCEPT ![Len(stk)].result = @ \o str]

Pop(stk) == SubSeq(stk, 1, Len(stk) - 1)

Step(what) == [NoStep EXCEPT !.what = what, !.prefix = prefix,
                             !.second = second_prefix]

InitRender ==
    /\ wrap = NoWrap
    /\ InlineIdle
    /\ RenderIdle

\* render_heading(element)
RenderHeading ==
    /\ pc = "run" /\ InBlocks /\ budget < MaxBlocks
    /\ \E level \in Levels, children \in HeadingChildren :
         LET r == render_heading(prefix, level, children)
         IN  /\ last' = [Step("heading") EXCEPT
                           !.level = level,
                           !.child = [kind |-> "text", text |-> children],
                           !.result = r]
             /\ IF r.ok
                THEN /\ stack' = AddResult(stack, r.val)
                     /\ prefix' = second_prefix
                     /\ budget' = budget + 1
                     /\ UNCHANGED <<pc, second_prefix, stdout, error>>
                ELSE /\ pc' = "aborted"
                     /\ error' = r
                     /\ UNCHANGED <<stack, prefix, second_prefix, budget, stdout>>
    /\ UNCHANGED <<wrap, inlineVars>>

\* A paragraph, rendered by the rule of MarkdownRenderer
RenderParagraph ==
    /\ pc = "run" /\ InBlocks /\ budget < MaxBlocks
    /\ \E child \in ParagraphChildren :
         LET r == render_paragraph(prefix, child)
         IN  /\ last' = [Step("paragraph") EXCEPT
                           !.child = child,
                           !.result = Ok(render_inline_child(child))]
             /\ stack' = AddResult(stack, r)
    /\ prefix' = second_prefix
    /\ budget' = budget + 1
    /\ UNCHANGED <<pc, second_prefix, stdout, error>>
    /\ UNCHANGED <<wrap, inlineVars>>

\* render_list(element) is entered, for a list of n items
EnterList ==
    /\ pc = "run" /\ InBlocks /\ budget < MaxBlocks /\ Depth < MaxDepth
    /\ \E ordered \in BOOLEAN, start \in Starts, bullet \in Bullets,
          n \in 1..MaxItems :
         /\ ordered => bullet = "-"
         /\ ~ordered => start = 1
         /\ stack' = Append(stack, Frame("list", ordered, start, bullet, n,
                                         prefix, second_prefix))
    /\ last' = Step("enter_list")
    /\ budget' = budget + 1
    /\ UNCHANGED <<pc, prefix, second_prefix, stdout, error>>
    /\ UNCHANGED <<wrap, inlineVars>>

\* The next child of the list: the container of its prefixes is entered
\* and the child (a list item) rendered.
EnterItem ==
    /\ pc = "run" /\ Top.kind = "list" /\ Top.i < Top.n
    /\ LET num == ItemNumber(Top.start, Top.i)
           p == IF Top.ordered THEN OrderedItemPrefixes(num)
                ELSE UnorderedItemPrefixes(Top.bullet)
           c == container_enter(prefix, second_prefix, p)
       IN  /\ stack' = Append(stack,
                   [Frame("item", Top.ordered, Top.start, Top.bullet, 0,
                          c.old_prefix, c.old_second) EXCEPT !.i = Top.i])
           /\ prefix' = c.prefix
           /\ second_prefix' = c.second
    /\ last' = [Step("item") EXCEPT !.ordered = Top.ordered,
                                    !.start = Top.start, !.i = Top.i]
    /\ UNCHANGED <<pc, budget, stdout, error>>
    /\ UNCHANGED <<wrap, inlineVars>>

\* The child is rendered: the container is left, which restores the pair
\* it saved, and the text of the child is appended to result.
ExitItem ==
    /\ pc = "run" /\ Top.kind = "item"
    /\ LET list == stack[Len(stack) - 1]
       IN  stack' = Pop(Pop(stack)) \o
                     <<[list EXCEPT !.result = @ \o Top.result,
                                    !.order = Append(@, Top.i),
                                    !.i = @ + 1]>>
    /\ prefix' = Top.old_prefix
    /\ second_prefix' = Top.old_second
    /\ last' = Step("exit_item")
    /\ UNCHANGED <<pc, budget, stdout, error>>
    /\ UNCHANGED <<wrap, inlineVars>>

\* render_list without its last assignment
ExitList_no_reset ==
    /\ pc = "run" /\ Top.kind = "list" /\ Top.i = Top.n
    /\ stack' = AddResult(Pop(stack), Top.result)
    /\ last' = [Step("list") EXCEPT !.prefix = Top.old_prefix,
                                    !.second = Top.old_second]
    /\ UNCHANGED <<pc, prefix, second_prefix, budget, stdout, error>>
    /\ UNCHANGED <<wrap, inlineVars>>

\* All the children are rendered: self._prefix = self._second_prefix and
\* render_list returns "".join(result).  last keeps the pair render_list
\* was entered with.
ExitList ==
    /\ pc = "run" /\ Top.kind = "list" /\ Top.i = Top.n
    /\ stack' = AddResult(Pop(stack), Top.result)
    /\ prefix' = second_prefix
    /\ last' = [Step("list") EXCEPT !.prefix = Top.old_prefix,
                                    !.second = Top.old_second]
    /\ UNCHANGED <<pc, second_prefix, budget, stdout, error>>
    /\ UNCHANGED <<wrap, inlineVars>>

\* render_quote(element) starts to render the children of the quote
EnterQuote ==
    /\ pc = "run" /\ InBlocks /\ budget < MaxBlocks /\ Depth < MaxDepth
    /\ stack' = Append(stack, Frame("quote", FALSE, 0, "", 0,
                                    prefix, second_prefix))
    /\ last' = Step("enter_quote")
    /\ budget' = budget + 1
    /\ UNCHANGED <<pc, prefix, second_prefix, stdout, error>>
    /\ UNCHANGED <<wrap, inlineVars>>

\* render_quote(element) wraps the rendered children and returns
ExitQuote ==
    /\ pc = "run" /\ Top.kind = "quote"
    /\ LET r == render_quote(Top.result)
       IN  /\ last' = [Step("quote") EXCEPT !.result = r]
           /\ IF r.ok
              THEN /\ stack' = AddResult(Pop(stack), r.val)
                   /\ UNCHANGED <<pc, error>>
              ELSE /\ pc' = "aborted"
                   /\ error' = r
                   /\ UNCHANGED stack
    /\ UNCHANGED <<prefix, second_prefix, budget, stdout>>
    /\ UNCHANGED <<wrap, inlineVars>>

\* print(markdown(input_file.read())): the whole document is rendered, and
\* only then printed
Finish ==
    /\ pc = "run" /\ Top.kind = "document"
    /\ stdout' = Top.result \o <<"\n">>
    /\ pc' = "done"
    /\ last' = Step("print")
    /\ UNCHANGED <<stack, prefix, second_prefix, budget, error>>
    /\ UNCHANGED <<wrap, inlineVars>>

NextRender ==
    \/ RenderHeading
    \/ RenderParagraph
    \/ EnterList
    \/ EnterItem
    \/ ExitItem
    \/ ExitList
    \/ EnterQuote
    \/ ExitQuote
    \/ Finish

SpecRender == InitRender /\ [][NextRender]_vars

\* What the documentation of BGG_wrap describes:
\* [<code>=<code_value>]<contents>[/<code>], without "=..." for None
Wrapped(code, contents, code_value) ==
    <<"[">> \o code
    \o (IF code_value.present THEN <<"=">> \o code_value.val ELSE <<>>)
    \o <<"]">> \o contents \o <<"[", "/">> \o code \o <<"]">>

\* C4: BGG_wrap returns [code]contents[/code], or [code=value]contents[/code]
\* when a value is given, with the contents copied unchanged whatever
\* characters they hold, and never fails.
C4_WrapCopiesContents ==
    wrap.called =>
        wrap.result = Ok(Wrapped(wrap.code, wrap.contents, wrap.code_value))

(***************************************************************************)
(* The inline elements.                                                    *)
(***************************************************************************)
AllDigits(str) == \A i \in 1..Len(str) : str[i] \in Digits

\* C1: for a long form link [text](http(s)://...boardgamegeek.com/type/id
\* /.../type/id<trailer>), InternalLinkLongForm matches the whole of it and
\* captures the type and the ID of the last /type/id pair, whatever the
\* trailer, and the link renders as [type=id]text[/type].
C1_LastPairCaptured ==
    input.form = "link" =>
        LET final == input.pairs[Len(input.pairs)]
            m == cands["InternalLinkLongForm"]
            g == GroupDict("InternalLinkLongForm", text, m.path)
            children == IF input.ltext.present THEN input.ltext.val ELSE <<>>
        IN  /\ pos = 1 =>
                /\ m.matched
                /\ m.end = Len(text) + 1
                /\ g.link_text = input.ltext
                /\ g.link_type = Some(final.type)
                /\ g.object_ID = Some(final.id)
            /\ pos > 1 =>
                /\ Len(nodes) = 1
                /\ nodes[1].kind = "InternalLinkLongForm"
                /\ nodes[1].groups.link_type = Some(final.type)
                /\ nodes[1].groups.object_ID = Some(final.id)
                /\ nodes[1].out =
                       Ok(<<"[">> \o final.type \o <<"=">> \o final.id \o <<"]">>
                          \o children \o <<"[", "/">> \o final.type \o <<"]">>)

\* [nice play](https://boardgamegeek.com/thread/555/article/777#777) has
\* been recognized and renders as [article=777]nice play[/article]
C1_Witness ==
    /\ input.form = "link"
    /\ input.ltext = Some(NICE_PLAY)
    /\ input.url = BGG_URL
    /\ input.pairs = << [type |-> THREAD, id |-> <<"5", "5", "5">>],
                        [type |-> ARTICLE, id |-> <<"7", "7", "7">>] >>
    /\ input.trailer = <<"#", "7", "7", "7">>
    /\ Len(nodes) = 1
    /\ nodes[1].out = Ok(<<"[">> \o ARTICLE \o <<"=", "7", "7", "7", "]">>
                         \o NICE_PLAY \o <<"[", "/">> \o ARTICLE \o <<"]">>)

\* The first ")" of str at or after position i (0 when there is none)
FirstParen(str, i) ==
    LET ps == {j \in i..Len(str) : str[j] = ")"}
    IN  IF ps = {} THEN 0 ELSE CHOOSE j \in ps : \A j2 \in ps : j <= j2

\* C2: a match of InternalLinkLongForm ends at the first ")" that follows
\* "(http(s)://...boardgamegeek.com", so that its link_type and object_ID
\* hold nothing from after that ")".
C2_MatchStopsAtFirstParen ==
    \A k \in 1..Len(nodes) :
        nodes[k].kind = "InternalLinkLongForm" =>
            nodes[k].end = FirstParen(text, nodes[k].path[10]) + 1

\* C3: the object_ID or image_ID of every match of the four internal link
\* and image elements is present, not empty and made of digits only.
C3_IdIsDigits ==
    \A k \in 1..Len(nodes) :
        LET e == nodes[k].kind
            g == nodes[k].groups
            id == IF e \in {"InternalLinkLongForm", "InternalLinkShortForm"}
                  THEN g.object_ID ELSE g.image_ID
        IN  e \in {"InternalLinkLongForm", "InternalLinkShortForm",
                   "InternalImageLongForm", "InternalImageShortForm"} =>
                id.present /\ id.val /= <<>> /\ AllDigits(id.val)

\* C8: !(https://boardgamegeek.com/image/123 small), which the internal
\* image element (priority 7) and the external image element both match,
\* is recognized by the internal image element and renders as
\* [imageid=123 small]; (youtube=ID) with an ID made of digits, which the
\* short form YouTube element (priority 7) and the short form internal link
\* element (priority 6) both match, is recognized by the YouTube element.
C8_HigherPriorityWins ==
    pos > 1 =>
        /\ (input.form = "raw" /\ input.raw = IMAGE_123_SMALL) =>
              /\ Len(nodes) = 1
              /\ nodes[1].kind = "InternalImageLongForm"
              /\ nodes[1].end = Len(text) + 1
              /\ nodes[1].out =
                     Ok(<<"[", "i", "m", "a", "g", "e", "i", "d", "=", "1", "2", "3", " ">>
                        \o SMALL \o <<"]">>)
        /\ (input.form = "youtube" /\ AllDigits(input.id)) =>
              /\ Len(nodes) = 1
              /\ nodes[1].kind = "YouTubeShortForm"
              /\ nodes[1].out =
                     Ok(<<"[", "y", "o", "u", "t", "u", "b", "e", "=">>
                        \o input.id \o <<"]">>)

\* (youtube=123), matched at its first character by the internal link
\* element too, has been recognized by the YouTube element
C8_Witness ==
    /\ input.form = "youtube"
    /\ input.id = <<"1", "2", "3">>
    /\ MatchAt("InternalLinkShortForm", text, 1).matched
    /\ MatchAt("YouTubeShortForm", text, 1).matched
    /\ Len(nodes) = 1
    /\ nodes[1].kind = "YouTubeShortForm"
    /\ nodes[1].start = 1


(***************************************************************************)
(* The blocks.                                                             *)
(***************************************************************************)
HasBrace(str) == \E i \in 1..Len(str) : str[i] \in {"{", "}"}

UNSUPPORTED_HEADING_LEVEL ==
    <<"u", "n", "s", "u", "p", "p", "o", "r", "t", "e", "d", " ",
      "h", "e", "a", "d", "i", "n", "g", " ", "l", "e", "v", "e", "l">>

\* C5, as the specification states it: a heading of a level other than 1
\* and 2 aborts the conversion with an "unsupported heading level" error,
\* and nothing is printed.
C5_ClearErrorMessage ==
    (last.what = "heading" /\ last.level \notin {1, 2}) =>
        /\ pc = "aborted"
        /\ error.msg = UNSUPPORTED_HEADING_LEVEL
        /\ stdout = <<>>

\* C5, amended: a heading of a level other than 1 and 2 aborts the
\* conversion with the KeyError of the lookup, whose only message is the
\* level; no size is guessed (render_heading returns nothing) and nothing is
\* printed, whatever was rendered before.
C5_HeadingLevelAborts ==
    /\ (last.what = "heading" /\ last.level \notin {1, 2}) =>
          /\ pc = "aborted"
          /\ ~last.result.ok
          /\ error.err = "KeyError"
          /\ error.msg = DecStr(last.level)
    /\ pc = "aborted" => stdout = <<>>

\* A heading of level 3 that follows rendered blocks has aborted the
\* conversion
C5_Witness ==
    /\ pc = "aborted"
    /\ last.what = "heading"
    /\ last.level = 3
    /\ stack[1].result /= <<>>
    /\ stdout = <<>>

SizeOf(level) == IF level = 1 THEN <<"2", "4">> ELSE <<"1", "8">>

\* C6, as the specification states it, for children without braces:
\* render_heading returns [size=N]children[/size] and a newline, nothing
\* else, wherever the heading stands.
C6_HeadingIsTagOnly ==
    (last.what = "heading" /\ last.level \in {1, 2}
       /\ ~HasBrace(last.child.text)) =>
        last.result = Ok(Wrapped(SIZE, last.child.text,
                                 Some(SizeOf(last.level))) \o <<"\n">>)

\* C6, amended: for a heading of level 1 or 2, render_heading returns the
\* current prefix, then what BGG_wrap("size", children, N) returns with N
\* 24 or 18, then a newline; when BGG_wrap raises, so does render_heading
\* and the conversion aborts.
C6_HeadingIsPrefixedTag ==
    (last.what = "heading" /\ last.level \in {1, 2}) =>
        LET w == BGG_wrap(SIZE, last.child.text, Some(SizeOf(last.level)))
        IN  /\ ~HasBrace(last.child.text) =>
                  last.result =
                      Ok(last.prefix
                         \o Wrapped(SIZE, last.child.text,
                                    Some(SizeOf(last.level)))
                         \o <<"\n">>)
            /\ w.ok => last.result = Ok(last.prefix \o w.val \o <<"\n">>)
            /\ ~w.ok => last.result = w /\ pc = "aborted"

\* A heading of level 2 has been rendered as the first block of a list
\* item: the prefix of the item comes first
C6_Witness ==
    /\ last.what = "heading"
    /\ last.level = 2
    /\ last.prefix = <<"-", " ">>
    /\ last.result = Ok(<<"-", " ", "[", "s", "i", "z", "e", "=", "1", "8",
                          "]", "T", "[", "/", "s", "i", "z", "e", "]", "\n">>)

\* C7: item i (from 0) of an ordered list that starts at s is rendered with
\* the prefix "<s+i>. " and the continuation prefix of len(str(s+i)) + 2
\* spaces, both after the ones of the enclosing element, and the items are
\* rendered in the order of the document.
C7_OrderedItemPrefix ==
    /\ (last.what = "item" /\ last.ordered) =>
          LET num == DecStr(last.start + last.i)
          IN  /\ prefix = last.prefix \o num \o <<".", " ">>
              /\ second_prefix = last.second \o Spaces(Len(num) + 2)
    /\ \A k \in 1..Len(stack) :
          stack[k].kind = "list" =>
              /\ stack[k].order = [j \in 1..stack[k].i |-> j - 1]
              /\ stack[k].i <= stack[k].n

\* The second item of a list that starts at 9 is being rendered: its
\* prefix is "10. " and its continuation prefix four spaces
C7_Witness ==
    /\ last.what = "item"
    /\ last.ordered
    /\ last.start = 9
    /\ last.i = 1
    /\ prefix = <<"1", "0", ".", " ">>
    /\ second_prefix = <<" ", " ", " ", " ">>

\* C9: a code span whose text begins or ends with a grave accent is
\* rendered between two grave accents and a space on each side, every other code span as
\* [c]text[/c].
C9_CodeSpanIsCodeTag ==
    (last.what = "paragraph" /\ last.child.kind = "code_span") =>
        LET t == last.child.text
        IN  last.result =
                IF t[1] = BACKTICK \/ t[Len(t)] = BACKTICK
                THEN Ok(<<BACKTICK, BACKTICK, " ">> \o t
                        \o <<" ", BACKTICK, BACKTICK>>)
                ELSE Ok(Wrapped(<<"c">>, t, None))

\* The prefixes of the item whose frame is f
ItemPrefixes(f) ==
    IF f.ordered THEN OrderedItemPrefixes(ItemNumber(f.start, f.i))
    ELSE UnorderedItemPrefixes(f.bullet)

\* C10: while an item is rendered the continuation prefix is the one of
\* the enclosing element extended by the item's, and the rendering of the
\* item starts with the enclosing prefix extended by the item's; between
\* the items the pair is the one render_list was entered with; when
\* render_list returns the continuation prefix is the one from before the
\* list and the prefix is equal to it.
C10_PrefixDiscipline ==
    /\ Top.kind = "item" =>
          /\ second_prefix = Top.old_second \o ItemPrefixes(Top).second
          /\ last.what = "item" =>
                prefix = Top.old_prefix \o ItemPrefixes(Top).first
    /\ Top.kind = "list" =>
          /\ prefix = Top.old_prefix
          /\ second_prefix = Top.old_second
    /\ last.what = "list" =>
          /\ second_prefix = last.second
          /\ prefix = second_prefix

\* A list that is the first block of a list item, entered with a prefix
\* that is not the continuation prefix, has returned
C10_Witness ==
    /\ last.what = "list"
    /\ Top.kind = "item"
    /\ last.prefix /= last.second
    /\ prefix = second_prefix
    /\ second_prefix = last.second

=============================================================================
